---- MODULE Spec2Model ----
(***************************************************************************)
(* Model of download_models.py: a straight-line script that creates the    *)
(* destination directory and then, for each name in MODELS, prints a       *)
(* "Downloading" line, calls snapshot_download (a blocking call into the   *)
(* registry client) and prints a "Successfully downloaded" line; a final   *)
(* line is printed after the loop.  The local filesystem and the registry  *)
(* client are the environment: directory creation may be refused, and a    *)
(* retrieval may return or raise after writing any part of the subtree.    *)
(***************************************************************************)
EXTENDS Integers, Sequences, FiniteSets, TLC

\* ------------------------------------------------------------ configuration

REPO_ID == "apple/coreml-mobileclip"

MODELS == <<"clip_text_s1.mlpackage", "clip_image_s1.mlpackage">>

\* "MiniClone/Models", as its path segments relative to the working directory
DEST_DIR == <<"MiniClone", "Models">>

\* ------------------------------------------------------------ bounds

\* number of times the script is invoked, one after the other
MaxRuns == 2

\* ------------------------------------------------------------ environment

\* Files held by the remote repository REPO_ID (paths as segments): the two
\* configured packages, one other package and a top-level file.
RegistryFiles ==
    { <<"README.md">>,
      <<"clip_text_s0.mlpackage", "Manifest.json">>,
      <<"clip_text_s1.mlpackage", "Manifest.json">>,
      <<"clip_text_s1.mlpackage", "model.mlmodel">>,
      <<"clip_image_s1.mlpackage", "Manifest.json">>,
      <<"clip_image_s1.mlpackage", "model.mlmodel">> }

\* A file in the destination directory that no retrieval is about
Unrelated == DEST_DIR \o <<"notes.txt">>

Prefixes(p) == { SubSeq(p, 1, k) : k \in 1..Len(p) }

Parent(p) == SubSeq(p, 1, Len(p) - 1)

\* every local path the model tracks
Paths == UNION { Prefixes(DEST_DIR \o r) : r \in RegistryFiles } \cup {Unrelated}

Kinds == {"absent", "dir", "file"}

\* the working directory (the empty path) always exists
KindOf(f, p) == IF p = <<>> THEN "dir" ELSE f[p]

\* A well-formed tree: whatever exists sits in a directory
WellFormed(f) == \A p \in Paths : f[p] # "absent" => KindOf(f, Parent(p)) = "dir"

\* The trees a first run can find: each segment of the destination path is
\* missing, a file or a directory, and an existing destination directory may
\* hold the unrelated file; nothing has been retrieved yet.
Tree(top, dest, note) ==
    [p \in Paths |-> IF p = SubSeq(DEST_DIR, 1, 1) THEN top
                     ELSE IF p = DEST_DIR THEN dest
                     ELSE IF p = Unrelated THEN note
                     ELSE "absent"]

InitialTrees ==
    { f \in { Tree(top, dest, note) : top \in Kinds, dest \in Kinds, note \in {"absent", "file"} } :
        WellFormed(f) }

VARIABLES
    pc,          \* position of the script
    idx,         \* position of the for-loop's iterator in MODELS
    model_name,  \* the loop variable
    fs,          \* local filesystem: path -> kind
    writable,    \* whether the process may create entries
    out,         \* lines printed on stdout by this run
    calls,       \* snapshot_download invocations of this run, with outcome
    exc,         \* the uncaught exception, if any
    exit_code,   \* process exit status; -1 while running
    runs         \* invocations of the script so far

vars == <<pc, idx, model_name, fs, writable, out, calls, exc, exit_code, runs>>

NoName == "<unbound>"
NoExc == [raised_by |-> "none", arg |-> "none"]

\* ------------------------------------------------------------ os.makedirs

\* mkdir(2): the entry is created when its parent is a directory, nothing is
\* there yet and the process may write.
mkdir(f, name, w) ==
    IF KindOf(f, Parent(name)) = "absent" THEN [err |-> "ENOENT", fs |-> f]
    ELSE IF KindOf(f, Parent(name)) = "file" THEN [err |-> "ENOTDIR", fs |-> f]
    ELSE IF f[name] # "absent" THEN [err |-> "EEXIST", fs |-> f]
    ELSE IF ~w THEN [err |-> "EACCES", fs |-> f]
    ELSE [err |-> "ok", fs |-> [f EXCEPT ![name] = "dir"]]

\* os.makedirs(name, exist_ok): missing parents first, then the leaf; an
\* OSError of the leaf's mkdir is dropped only when exist_ok is set and the
\* leaf is a directory.
RECURSIVE makedirs(_, _, _, _)
makedirs(f, name, w, exist_ok) ==
    LET head == Parent(name)
        up == IF head # <<>> /\ KindOf(f, head) = "absent"
                THEN makedirs(f, head, w, exist_ok)
                ELSE [err |-> "ok", fs |-> f]
    IN  IF up.err \notin {"ok", "EEXIST"} THEN up
        ELSE LET r == mkdir(up.fs, name, w)
             IN  IF r.err = "ok" THEN r
                 ELSE IF exist_ok /\ r.fs[name] = "dir" THEN [err |-> "ok", fs |-> r.fs]
                 ELSE r

\* ------------------------------------------------------------ the script

Init ==
    /\ pc = "makedirs"
    /\ idx = 0
    /\ model_name = NoName
    /\ fs \in InitialTrees
    /\ writable \in BOOLEAN
    /\ out = <<>>
    /\ calls = <<>>
    /\ exc = NoExc
    /\ exit_code = -1
    /\ runs = 1

\* MakeDirs with exist_ok left at its default: an existing directory is an error
MakeDirs_no_exist_ok ==
    /\ pc = "makedirs"
    /\ LET r == makedirs(fs, DEST_DIR, writable, FALSE)
       IN  IF r.err = "ok"
             THEN /\ fs' = r.fs
                  /\ pc' = "for"
                  /\ UNCHANGED <<exc, exit_code>>
             ELSE /\ fs' = r.fs
                  /\ pc' = "done"
                  /\ exc' = [raised_by |-> "makedirs", arg |-> r.err]
                  /\ exit_code' = 1
    /\ UNCHANGED <<idx, model_name, writable, out, calls, runs>>

\* MakeDirs inside a try/except that drops the OSError and goes on
MakeDirs_swallow ==
    /\ pc = "makedirs"
    /\ fs' = makedirs(fs, DEST_DIR, writable, TRUE).fs
    /\ pc' = "for"
    /\ UNCHANGED <<idx, model_name, writable, out, calls, exc, exit_code, runs>>

\* line 8: os.makedirs(DEST_DIR, exist_ok=True)
MakeDirs ==
    /\ pc = "makedirs"
    /\ LET r == makedirs(fs, DEST_DIR, writable, TRUE)
       IN  IF r.err = "ok"
             THEN /\ fs' = r.fs
                  /\ pc' = "for"
                  /\ UNCHANGED <<exc, exit_code>>
             ELSE /\ fs' = r.fs
                  /\ pc' = "done"
                  /\ exc' = [raised_by |-> "makedirs", arg |-> r.err]
                  /\ exit_code' = 1
    /\ UNCHANGED <<idx, model_name, writable, out, calls, runs>>

\* ForNext leaving the loop after the first name
ForNext_break ==
    /\ pc = "for"
    /\ IF idx < 1
         THEN /\ idx' = idx + 1
              /\ model_name' = MODELS[idx + 1]
              /\ pc' = "print_downloading"
         ELSE /\ pc' = "print_all"
              /\ UNCHANGED <<idx, model_name>>
    /\ UNCHANGED <<fs, writable, out, calls, exc, exit_code, runs>>

\* ForNext whose iterator does not advance: the same name is taken again
ForNext_noadvance ==
    /\ pc = "for"
    /\ model_name' = MODELS[1]
    /\ pc' = "print_downloading"
    /\ UNCHANGED <<idx, fs, writable, out, calls, exc, exit_code, runs>>

\* line 10: the for statement takes the next name of MODELS, or leaves the loop
ForNext ==
    /\ pc = "for"
    /\ IF idx < Len(MODELS)
         THEN /\ idx' = idx + 1
              /\ model_name' = MODELS[idx + 1]
              /\ pc' = "print_downloading"
         ELSE /\ pc' = "print_all"
              /\ UNCHANGED <<idx, model_name>>
    /\ UNCHANGED <<fs, writable, out, calls, exc, exit_code, runs>>

\* line 11: print(f"Downloading {model_name}...")
PrintDownloading ==
    /\ pc = "print_downloading"
    /\ out' = Append(out, <<"Downloading", model_name>>)
    /\ pc' = "call"
    /\ UNCHANGED <<idx, model_name, fs, writable, calls, exc, exit_code, runs>>

\* the filter left out: every file of the repository is allowed
allow_patterns_all(name) == <<"**">>

\* f"{model_name}/**"
allow_patterns(name) == <<name, "**">>

\* the call not awaited: the script goes on while the transfer is pending
CallSnapshotDownload_nowait ==
    /\ pc = "call"
    /\ calls' = Append(calls, [repo_id |-> REPO_ID,
                               allow_patterns |-> allow_patterns(model_name),
                               local_dir |-> DEST_DIR,
                               local_dir_use_symlinks |-> FALSE,
                               status |-> "pending"])
    /\ pc' = "print_success"
    /\ UNCHANGED <<idx, model_name, fs, writable, out, exc, exit_code, runs>>

\* lines 14-19: the call is entered with its keyword arguments; the script is
\* suspended in it until the client returns or raises
CallSnapshotDownload ==
    /\ pc = "call"
    /\ calls' = Append(calls, [repo_id |-> REPO_ID,
                               allow_patterns |-> allow_patterns(model_name),
                               local_dir |-> DEST_DIR,
                               local_dir_use_symlinks |-> FALSE,
                               status |-> "pending"])
    /\ pc' = "in_call"
    /\ UNCHANGED <<idx, model_name, fs, writable, out, exc, exit_code, runs>>

\* ------------------------------------------------------------ registry client

\* fnmatch of a repository path against "<name>/**": the path lies below <name>
Matches(pat, r) ==
    /\ Len(r) >= Len(pat)
    /\ \A k \in 1..(Len(pat) - 1) : r[k] = pat[k]

\* the repository files one call has to materialise
Wanted(c) == { r \in RegistryFiles : Matches(c.allow_patterns, r) }

\* the client writes one wanted file under local_dir, creating its directories
ClientWriteFile ==
    /\ pc = "in_call"
    /\ writable
    /\ LET c == calls[Len(calls)]
       IN  \E r \in Wanted(c) :
             LET target == c.local_dir \o r
                 d == makedirs(fs, Parent(target), writable, TRUE)
             IN  /\ fs[target] = "absent"
                 /\ d.err = "ok"
                 /\ fs' = [d.fs EXCEPT ![target] = "file"]
    /\ UNCHANGED <<pc, idx, model_name, writable, out, calls, exc, exit_code, runs>>

\* the client returns once every wanted file is in place
ClientReturn ==
    /\ pc = "in_call"
    /\ LET c == calls[Len(calls)]
       IN  \A r \in Wanted(c) : fs[c.local_dir \o r] = "file"
    /\ calls' = [calls EXCEPT ![Len(calls)].status = "returned"]
    /\ pc' = "print_success"
    /\ UNCHANGED <<idx, model_name, fs, writable, out, exc, exit_code, runs>>

\* the exception caught in the loop body, the loop going on with the next name
ClientRaise_caught ==
    /\ pc = "in_call"
    /\ calls' = [calls EXCEPT ![Len(calls)].status = "raised"]
    /\ pc' = "for"
    /\ UNCHANGED <<idx, model_name, fs, writable, out, exc, exit_code, runs>>

\* the exception caught and the same retrieval called again
ClientRaise_retry ==
    /\ pc = "in_call"
    /\ calls' = [calls EXCEPT ![Len(calls)].status = "raised"]
    /\ pc' = "call"
    /\ UNCHANGED <<idx, model_name, fs, writable, out, exc, exit_code, runs>>

\* the exception handled by removing what the failed retrieval left behind
ClientRaise_cleanup ==
    /\ pc = "in_call"
    /\ calls' = [calls EXCEPT ![Len(calls)].status = "raised"]
    /\ fs' = [p \in Paths |->
                IF Len(p) > Len(DEST_DIR) /\ p[Len(DEST_DIR) + 1] = model_name
                  THEN "absent" ELSE fs[p]]
    /\ exc' = [raised_by |-> "snapshot_download", arg |-> model_name]
    /\ exit_code' = 1
    /\ pc' = "done"
    /\ UNCHANGED <<idx, model_name, writable, out, runs>>

\* the exception caught at top level and the script ending normally
ClientRaise_exit0 ==
    /\ pc = "in_call"
    /\ calls' = [calls EXCEPT ![Len(calls)].status = "raised"]
    /\ exit_code' = 0
    /\ pc' = "done"
    /\ UNCHANGED <<idx, model_name, fs, writable, out, exc, runs>>

\* the client raises at any point of the transfer; the script has no handler,
\* so the exception ends the process with what was written left in place
ClientRaise ==
    /\ pc = "in_call"
    /\ calls' = [calls EXCEPT ![Len(calls)].status = "raised"]
    /\ exc' = [raised_by |-> "snapshot_download", arg |-> model_name]
    /\ exit_code' = 1
    /\ pc' = "done"
    /\ UNCHANGED <<idx, model_name, fs, writable, out, runs>>

\* line 20: print(f"Successfully downloaded {model_name} to {DEST_DIR}")
PrintSuccess ==
    /\ pc = "print_success"
    /\ out' = Append(out, <<"Successfully downloaded", model_name, DEST_DIR>>)
    /\ pc' = "for"
    /\ UNCHANGED <<idx, model_name, fs, writable, calls, exc, exit_code, runs>>

\* line 22: print("All models downloaded successfully."), then the script ends
PrintAllDone ==
    /\ pc = "print_all"
    /\ out' = Append(out, <<"All models downloaded successfully.">>)
    /\ exit_code' = 0
    /\ pc' = "done"
    /\ UNCHANGED <<idx, model_name, fs, writable, calls, exc, runs>>

\* the script is invoked again: a fresh process over the same filesystem
Rerun ==
    /\ pc = "done"
    /\ runs < MaxRuns
    /\ runs' = runs + 1
    /\ pc' = "makedirs"
    /\ idx' = 0
    /\ model_name' = NoName
    /\ out' = <<>>
    /\ calls' = <<>>
    /\ exc' = NoExc
    /\ exit_code' = -1
    /\ UNCHANGED <<fs, writable>>

\* one step of a running script or of the client it is blocked in
Step ==
    \/ MakeDirs
    \/ ForNext
    \/ PrintDownloading
    \/ CallSnapshotDownload
    \/ ClientWriteFile
    \/ ClientReturn
    \/ ClientRaise
    \/ PrintSuccess
    \/ PrintAllDone

Next == Step \/ Rerun

Spec == Init /\ [][Next]_vars

\* every call into the client eventually returns or raises, and the
\* interpreter keeps executing the script
FairSpec == Spec /\ WF_vars(Step)

\* ------------------------------------------------------------ observations

Downloading(name) == <<"Downloading", name>>
Successfully(name) == <<"Successfully downloaded", name, DEST_DIR>>
AllDone == <<"All models downloaded successfully.">>

Printed(line) == \E k \in 1..Len(out) : out[k] = line

\* the calls of this run made for one name's subtree
CallsFor(name) == { k \in 1..Len(calls) : calls[k].allow_patterns = <<name, "**">> }

Returned(name) == \E k \in CallsFor(name) : calls[k].status = "returned"
Raised(name) == \E k \in CallsFor(name) : calls[k].status = "raised"
AllReturned == \A i \in 1..Len(MODELS) : Returned(MODELS[i])

\* the registry's files below one top-level name, and their local copies
FilesOf(name) == { r \in RegistryFiles : Len(r) >= 2 /\ r[1] = name }
OnDisk(name) ==
    /\ fs[DEST_DIR \o <<name>>] = "dir"
    /\ \A r \in FilesOf(name) : fs[DEST_DIR \o r] = "file"

\* the subdirectories of the destination directory
SubDirs == { p[Len(p)] : p \in { q \in Paths : Parent(q) = DEST_DIR /\ fs[q] = "dir" } }

\* the lines of a run in which nothing fails, up to the i-th name
RECURSIVE LinesUpTo(_)
LinesUpTo(i) ==
    IF i = 0 THEN <<>>
    ELSE LinesUpTo(i - 1) \o <<Downloading(MODELS[i]), Successfully(MODELS[i])>>

FullOutput == LinesUpTo(Len(MODELS)) \o <<AllDone>>

IsPrefix(a, b) == Len(a) <= Len(b) /\ SubSeq(b, 1, Len(a)) = a

\* ------------------------------------------------------------ claims

\* C1: when the retrieval of the i-th name has failed, every name listed
\* before it is on disk under the destination directory, and no name listed
\* after it has a "Downloading" line or a call to the client in that run.
C1_Isolation ==
    \A i \in 1..Len(MODELS) :
        Raised(MODELS[i]) =>
            /\ \A j \in 1..(i - 1) : OnDisk(MODELS[j])
            /\ \A j \in (i + 1)..Len(MODELS) :
                   /\ ~Printed(Downloading(MODELS[j]))
                   /\ CallsFor(MODELS[j]) = {}

C1_Witness ==
    /\ pc = "done"
    /\ runs = 1
    /\ Raised(MODELS[1])
    /\ fs[DEST_DIR \o <<MODELS[1], "Manifest.json">>] = "file"

\* C2: the final line is printed iff every retrieval returned; it is never
\* printed after a failed makedirs or a failed retrieval, and when printed it
\* is printed once, as the last line.
C2_Completeness ==
    /\ Printed(AllDone) =>
          /\ AllReturned
          /\ exc = NoExc
          /\ \A i \in 1..Len(MODELS) : ~Raised(MODELS[i])
          /\ out[Len(out)] = AllDone
          /\ Cardinality({ k \in 1..Len(out) : out[k] = AllDone }) = 1
    /\ pc = "done" => (Printed(AllDone) <=> AllReturned)

C2_Witness == pc = "done" /\ AllReturned /\ Printed(AllDone)

\* C3: the printed lines are, in order, a prefix of Downloading/Successfully
\* pairs in the order of MODELS followed by the final line, and a name's
\* "Successfully downloaded" line is printed only after its call returned.
C3_Order ==
    /\ IsPrefix(out, FullOutput)
    /\ \A i \in 1..Len(MODELS) : Printed(Successfully(MODELS[i])) => Returned(MODELS[i])

C3_Witness ==
    /\ out = LinesUpTo(Len(MODELS))
    /\ AllReturned

\* C4: makedirs on an existing destination directory succeeds and changes
\* nothing; when it succeeds every segment of the path is a directory and
\* nothing else changed; it succeeds whenever the process may write and no
\* segment is a file; a second run never fails at makedirs while the
\* directory exists.
C4_IdempotentMakedirs ==
    /\ [](runs >= 2 /\ exc.raised_by = "makedirs" => fs[DEST_DIR] # "dir")
    /\ [][pc = "makedirs" =>
            /\ fs[DEST_DIR] = "dir" => (pc' = "for" /\ fs' = fs)
            /\ pc' = "for" =>
                  /\ \A p \in Prefixes(DEST_DIR) : fs'[p] = "dir"
                  /\ \A p \in Paths \ Prefixes(DEST_DIR) : fs'[p] = fs[p]
            /\ (writable /\ \A p \in Prefixes(DEST_DIR) : fs[p] # "file") => pc' = "for"
         ]_vars

C4_Witness ==
    /\ runs = 2
    /\ pc = "for"
    /\ idx = 0
    /\ ~writable
    /\ fs[Unrelated] = "file"

\* C5: in one run the client is called at most once for each name of MODELS;
\* a raised call is the last call of the run.
C5_AtMostOnce ==
    /\ \A i \in 1..Len(MODELS) : Cardinality(CallsFor(MODELS[i])) <= 1
    /\ \A k \in 1..Len(calls) : calls[k].status = "raised" => k = Len(calls)
    /\ Len(calls) <= Len(MODELS)

C5_Witness ==
    /\ pc = "done"
    /\ Len(calls) = Len(MODELS)
    /\ calls[Len(calls)].status = "raised"

\* C6: the destination directory is a directory whenever a retrieval is
\* about to be called or is under way, and a failed makedirs ends the run
\* with no line printed and no call made.
C6_DirectoryFirst ==
    /\ pc \in {"print_downloading", "call", "in_call"} => fs[DEST_DIR] = "dir"
    /\ \A k \in 1..Len(calls) : calls[k].status = "pending" => fs[calls[k].local_dir] = "dir"
    /\ (pc = "done" /\ fs[DEST_DIR] # "dir") => (out = <<>> /\ calls = <<>>)
    /\ exc.raised_by = "makedirs" => (pc = "done" /\ out = <<>> /\ calls = <<>>)

C6_Witness ==
    /\ pc = "done"
    /\ exc.raised_by = "makedirs"
    /\ exc.arg \in {"EACCES", "ENOTDIR", "EEXIST"}

\* C7: no step removes or replaces an entry of the filesystem: whatever
\* exists before a step exists unchanged after it, the destination
\* directory, unrelated files and partly written subtrees included.
C7_OnlyAddedTo ==
    [][\A p \in Paths : fs[p] # "absent" => fs'[p] = fs[p]]_vars

C7_Witness ==
    /\ pc = "done"
    /\ exc.raised_by = "snapshot_download"
    /\ fs[Unrelated] = "file"
    /\ \E r1, r2 \in FilesOf(exc.arg) :
          fs[DEST_DIR \o r1] = "file" /\ fs[DEST_DIR \o r2] = "absent"

\* C8: after a run in which one call per name was made and every call
\* returned, the subdirectories of
\* the destination directory are exactly the names of MODELS, each with its
\* files; each call was filtered to its own name and aimed at the
\* destination directory; the lines printed are the full sequence.
C8_Layout ==
    (/\ pc = "done"
     /\ Len(calls) = Len(MODELS)
     /\ \A k \in 1..Len(calls) : calls[k].status = "returned") =>
        /\ SubDirs = { MODELS[i] : i \in 1..Len(MODELS) }
        /\ \A i \in 1..Len(MODELS) : OnDisk(MODELS[i])
        /\ \A i \in 1..Len(MODELS) :
              /\ calls[i].repo_id = REPO_ID
              /\ calls[i].allow_patterns = <<MODELS[i], "**">>
              /\ calls[i].local_dir = DEST_DIR
        /\ out = FullOutput

C8_Witness ==
    /\ pc = "done"
    /\ runs = 1
    /\ AllReturned
    /\ fs[Unrelated] = "file"

\* C9: the process exits 0 iff makedirs and every retrieval succeeded; a
\* failure of either ends the run in the step where it happens, with exit
\* status 1 and the failure itself as the uncaught exception.
C9_ExitOutcome ==
    /\ [](/\ pc # "done" => exit_code = -1
          /\ pc = "done" =>
                /\ exit_code \in {0, 1}
                /\ exit_code = 0 <=> (fs[DEST_DIR] = "dir" /\ AllReturned)
                /\ exit_code = 1 <=> exc # NoExc)
    /\ [][/\ (Len(calls') = Len(calls) /\ Len(calls) > 0
                /\ calls[Len(calls)].status = "pending"
                /\ calls'[Len(calls)].status = "raised") =>
                   /\ pc' = "done"
                   /\ exit_code' = 1
                   /\ exc' = [raised_by |-> "snapshot_download", arg |-> model_name]
                   /\ out' = out
          /\ (pc = "makedirs" /\ makedirs(fs, DEST_DIR, writable, TRUE).err # "ok") =>
                   /\ pc' = "done"
                   /\ exit_code' = 1
                   /\ exc' = [raised_by |-> "makedirs",
                              arg |-> makedirs(fs, DEST_DIR, writable, TRUE).err]
         ]_vars

C9_Witness ==
    /\ pc = "done"
    /\ exit_code = 1
    /\ exc.raised_by = "snapshot_download"
    /\ Len(calls) = 2

\* C10: with every call into the client returning or raising, every run
\* reaches its end, either after one returned call per name or at the first
\* failure; a run makes at most Len(MODELS) calls and the iterator only
\* moves forward, one name per call.
C10_Termination ==
    /\ \A n \in 1..MaxRuns : (runs = n /\ pc = "makedirs") ~> (runs = n /\ pc = "done")
    /\ [](pc = "done" =>
            \/ exc # NoExc
            \/ /\ Len(calls) = Len(MODELS)
               /\ \A i \in 1..Len(MODELS) : calls[i].status = "returned")
    /\ [][/\ Len(calls') <= Len(MODELS)
          /\ runs' = runs => idx' >= idx
          /\ Len(calls') = Len(calls) + 1 => calls'[Len(calls')].allow_patterns = <<MODELS[Len(calls')], "**">>
         ]_vars

C10_Witness ==
    /\ runs = MaxRuns
    /\ pc = "done"
    /\ exit_code = 0
    /\ Len(calls) = Len(MODELS)

====
